---- MODULE Spec2Model ----
(***************************************************************************)
(* Swasthiq AI Scribe: the Streamlit consultation script (scribe_mvp.py),  *)
(* its Relevance Gate / Note Synthesizer, and the Profile page's reset.    *)
(*                                                                         *)
(* Python strings are TLA+ strings; the str methods the code uses          *)
(* (lower, strip, split, `in`) are computed character by character.        *)
(* Python's None is the distinguished value None.                          *)
(***************************************************************************)
EXTENDS Integers, Sequences, FiniteSets, TLC

VARIABLES
  ss,        \* st.session_state: key -> value, user keys and widget keys
  environ,   \* the credentials configured in the process environment
  rendered,  \* the buttons the last script run put on the page
  rerun,     \* a script run is pending (first page load, st.rerun())
  last,      \* what the last script run did: clicks, calls, messages shown
  pass,      \* what the PROCESSING pass did whose outcome the page shows
  gate,      \* one call of generate_soap_note_openai: input, client, result
  stt,       \* transcribe_audio_sarvam_api calls of the sessions of one
             \* process, statement by statement: clock, files, each call
  home       \* the sessions of the Home application (Home.py and pages/):
             \* each one's session_state, page shown and last run

vars == <<ss, environ, rendered, rerun, last, pass, gate, stt, home>>

None == "<None>"

(***************************************************************************)
(* str helpers                                                             *)
(***************************************************************************)
Uppers == "ABCDEFGHIJKLMNOPQRSTUVWXYZ"
Lowers == "abcdefghijklmnopqrstuvwxyz"

CharAt(s, i) == SubSeq(s, i, i)

IsSpace(c) == c \in {" ", "\n", "\t", "\r"}

\* sub in s
Contains(s, sub) ==
  \E i \in 1..(Len(s) - Len(sub) + 1) : SubSeq(s, i, i + Len(sub) - 1) = sub

\* the lower-case letter of each upper-case letter
ToLower ==
  [c \in {CharAt(Uppers, i) : i \in 1..26} |->
     CharAt(Lowers, CHOOSE i \in 1..26 : CharAt(Uppers, i) = c)]

LowerChar(c) == IF c \in DOMAIN ToLower THEN ToLower[c] ELSE c

RECURSIVE LowerFrom(_, _)
LowerFrom(s, i) ==
  IF i > Len(s) THEN "" ELSE LowerChar(CharAt(s, i)) \o LowerFrom(s, i + 1)

\* s.lower()
Lower(s) == LowerFrom(s, 1)

RECURSIVE FirstInk(_, _)
FirstInk(s, i) ==
  IF i > Len(s) \/ ~IsSpace(CharAt(s, i)) THEN i ELSE FirstInk(s, i + 1)

RECURSIVE LastInk(_, _)
LastInk(s, i) ==
  IF i < 1 \/ ~IsSpace(CharAt(s, i)) THEN i ELSE LastInk(s, i - 1)

\* s.strip()
Strip(s) == SubSeq(s, FirstInk(s, 1), LastInk(s, Len(s)))

\* len(s.split()): the maximal runs of non-whitespace characters
WordCount(s) ==
  Cardinality({i \in 1..Len(s) :
                 /\ ~IsSpace(CharAt(s, i))
                 /\ (i = 1 \/ IsSpace(CharAt(s, i - 1)))})

Digits == "0123456789"

\* the syntax the WhatsApp field asks for: "+" and digits (+91XXXXXXXXXX)
IsPhone(s) ==
  /\ Len(s) >= 2
  /\ CharAt(s, 1) = "+"
  /\ \A i \in 2..Len(s) : Contains(Digits, CharAt(s, i))

\* the syntax of an e-mail address: one "@", something before it, a dotted
\* domain after it, no whitespace
IsEmail(s) ==
  /\ Cardinality({i \in 1..Len(s) : CharAt(s, i) = "@"}) = 1
  /\ ~\E i \in 1..Len(s) : IsSpace(CharAt(s, i))
  /\ \E i \in 2..(Len(s) - 3) :
       /\ CharAt(s, i) = "@"
       /\ \E j \in (i + 2)..(Len(s) - 1) : CharAt(s, j) = "."

\* the syntax the delivery target implies
WellFormed(target, contact) ==
  IF target = "WhatsApp" THEN IsPhone(contact) ELSE IsEmail(contact)

(***************************************************************************)
(* Relevance Gate and Note Synthesizer: generate_soap_note_openai          *)
(***************************************************************************)
WordThreshold == 10

Markers ==
  {"pain", "fever", "mg", "diagnos", "prescribe", "consult", "patient",
   "doctor", "treatment"}

\* transcript.lower().strip()
normalized_transcript(transcript) == Strip(Lower(transcript))

\* the threshold taken inclusively: word_count <= 10
is_trivial_inclusive(normalized) ==
  /\ WordCount(normalized) <= WordThreshold
  /\ ~\E marker \in Markers : Contains(normalized, marker)

\* word_count < 10 and not any(marker in normalized_transcript ...)
is_trivial(normalized) ==
  /\ WordCount(normalized) < WordThreshold
  /\ ~\E marker \in Markers : Contains(normalized, marker)

SafeNote ==
  "S: None (Trivial/Non-clinical audio. No patient conversation detected).\n"
  \o "O: None found in conversation.\n"
  \o "A: None found in conversation.\n"
  \o "P: None found in conversation."

ClientInitError ==
  "AI Generation Error: OpenAI client failed to initialize. Check API key."

\* The model call's outcomes: a completion with text, a completion whose
\* content is None, or an exception with its message.
LlmOutcomes ==
  {[kind |-> "ok", text |-> "S: fever for two days, one dose taken in error\nO: None found in conversation.\nA: None found in conversation.\nP: paracetamol 650 mg"],
   [kind |-> "ok", text |-> "S: reports Error E04 on glucometer\nO: None found in conversation.\nA: None found in conversation.\nP: None found in conversation."],
   [kind |-> "null", text |-> None],
   [kind |-> "raise", text |-> "Connection error."]}

\* generate_soap_note_openai(transcript), with the module-level client
\* (client_ok: client is not None) and the outcome g of the model call.
\* value: what is returned; llm: the model was called; warned: st.warning ran.
generate_soap_note_openai(transcript, client_ok, g) ==
  LET normalized == normalized_transcript(transcript)
  IN IF ~client_ok
     THEN [value |-> ClientInitError, llm |-> FALSE, warned |-> FALSE]
     ELSE IF is_trivial(normalized) \/ normalized = ""
     THEN [value |-> SafeNote, llm |-> FALSE, warned |-> TRUE]
     ELSE IF g.kind = "raise"
     THEN [value |-> "AI Generation Error: " \o g.text, llm |-> TRUE, warned |-> FALSE]
     ELSE [value |-> g.text, llm |-> TRUE, warned |-> FALSE]

(***************************************************************************)
(* Transcription Provider: transcribe_audio_sarvam_api                     *)
(***************************************************************************)
\* What the provider job can do once the key is present: the temporary file
\* cannot be written, the SDK raises, the job ends FAILED (text: job id), the
\* download holds no transcript file, or the transcript file holds text.
TranscribeOutcomes ==
  {[kind |-> "write_fail", text |-> "No space left on device"],
   [kind |-> "sdk_raise", text |-> "Read timed out."],
   [kind |-> "job_failed", text |-> "job_7f3a"],
   [kind |-> "no_output", text |-> ""],
   [kind |-> "ok", text |-> "hello hello"],
   [kind |-> "ok", text |-> "patient has fever and by error took 650 mg paracetamol twice"],
   [kind |-> "ok", text |-> "glucometer shows Error E04 since monday and the patient has pain"]}

Failures == {"no_key", "write_fail", "sdk_raise", "job_failed", "no_output"}

\* transcribe_audio_sarvam_api(audio_bytes) with the key present or not and the
\* job's outcome t. kind: how the call ended; called: the provider was reached;
\* value: the string returned.
transcribe_audio_sarvam_api(audio_bytes, key_ok, t) ==
  IF ~key_ok
  THEN [kind |-> "no_key", called |-> FALSE,
        value |-> "Transcription API Error: SARVAM_AI_API_KEY not found in environment secrets."]
  ELSE IF t.kind = "write_fail"
  THEN [kind |-> t.kind, called |-> FALSE,
        value |-> "File System Error: Could not save temporary audio file. Details: " \o t.text]
  ELSE IF t.kind = "sdk_raise"
  THEN [kind |-> t.kind, called |-> TRUE,
        value |-> "Sarvam SDK Execution Error: An unexpected error occurred during job processing. Details: " \o t.text]
  ELSE IF t.kind = "job_failed"
  THEN [kind |-> t.kind, called |-> TRUE,
        value |-> "Sarvam Job Failed: Status was FAILED. Check Sarvam logs for job " \o t.text \o "."]
  ELSE IF t.kind = "no_output"
  THEN [kind |-> t.kind, called |-> TRUE,
        value |-> "Sarvam Output Error: Transcript file not found in downloaded output."]
  ELSE [kind |-> "ok", called |-> TRUE, value |-> t.text]

(***************************************************************************)
(* Delivery Dispatcher: send_whatsapp_note, send_email_note                *)
(***************************************************************************)
\* What the transport can do once the credentials are present: deliver, raise
\* with a message of its own, or refuse the recipient (smtplib's
\* SMTPRecipientsRefused and Twilio's REST error both quote the recipient).
DeliveryOutcomes ==
  {[kind |-> "ok", text |-> ""],
   [kind |-> "raise", text |-> "Connection refused"],
   [kind |-> "refused", text |-> ""]}

DeliveryDetail(d, recipient) ==
  IF d.kind = "refused"
  THEN "{'" \o recipient \o "': (550, b'User unknown')}"
  ELSE d.text

\* send_whatsapp_note(content, recipient_number). kind: how it ended;
\* called: the provider was reached; via: the transport this function is;
\* value: the string returned.
send_whatsapp_note(content, recipient_number, creds_ok, d) ==
  IF ~creds_ok
  THEN [kind |-> "no_creds", called |-> FALSE, via |-> "WhatsApp",
        value |-> "WhatsApp Failed: Twilio credentials not set up."]
  ELSE IF d.kind = "ok"
  THEN [kind |-> "ok", called |-> TRUE, via |-> "WhatsApp",
        value |-> "Success! Note sent via WhatsApp to " \o recipient_number \o "."]
  ELSE [kind |-> d.kind, called |-> TRUE, via |-> "WhatsApp",
        value |-> "WhatsApp API Failed: " \o DeliveryDetail(d, recipient_number)
                  \o ". Check number format and Sandbox linkage."]

\* send_email_note(content, recipient_email). int(os.environ.get('SMTP_PORT',
\* 587)) comes first and raises ValueError on a value that is no number
\* (port_ok false): the function then returns nothing (value None).
send_email_note(content, recipient_email, creds_ok, port_ok, d) ==
  IF ~port_ok
  THEN [kind |-> "port_fault", called |-> FALSE, via |-> "Email",
        value |-> None]
  ELSE IF ~creds_ok
  THEN [kind |-> "no_creds", called |-> FALSE, via |-> "Email",
        value |-> "Email Failed: SMTP credentials not set up."]
  ELSE IF d.kind = "ok"
  THEN [kind |-> "ok", called |-> TRUE, via |-> "Email",
        value |-> "Success! Note sent via Email to " \o recipient_email \o "."]
  ELSE [kind |-> d.kind, called |-> TRUE, via |-> "Email",
        value |-> "Email SMTP Failed: " \o DeliveryDetail(d, recipient_email)
                  \o ". Check SMTP credentials (App Password)."]

(***************************************************************************)
(* st.session_state and the widgets                                        *)
(***************************************************************************)
Has(s, k) == k \in DOMAIN s
Put(s, k, v) == IF k \in DOMAIN s THEN [s EXCEPT ![k] = v] ELSE (k :> v) @@ s

\* st.session_state.clear(): no key is left, user key or widget key
Cleared == [k \in {} |-> None]

WidgetKeys ==
  {"name_input", "input_mode_radio", "delivery_radio", "contact_input_wa",
   "contact_input_email", "live_audio_recorder", "file_uploader",
   "final_note_edit"}

\* a keyed widget: its value is the one session_state holds under its key,
\* and the default (value=, index 0, None) when it holds none
widget(s, key, default) == IF Has(s, key) THEN s ELSE Put(s, key, default)

\* at the end of a script run the state of the widgets it did not render is dropped
Keep(s, keys) ==
  IF DOMAIN s \cap (WidgetKeys \ keys) = {} THEN s
  ELSE [k \in DOMAIN s \ (WidgetKeys \ keys) |-> s[k]]

Defaults ==
  [current_stage |-> 0,
   doctor_name |-> "Dr. A. Sharma",
   delivery_target |-> "Email",
   contact_input |-> "dr.a.sharma@clinic.com",
   raw_transcript |-> "",
   soap_note |-> "",
   audio_bytes |-> None,
   input_mode |-> "Live Recording"]

\* if 'current_stage' not in st.session_state: clear() and the defaults
initialize_session_state(s) ==
  IF Has(s, "current_stage") THEN s ELSE Defaults

\* st.text_input("Doctor's Name:", value=doctor_name, key='name_input')
NameInput(s) ==
  LET w == widget(s, "name_input", s.doctor_name)
  IN  Put(w, "doctor_name", w.name_input)

\* st.radio("Select Audio Source:", ..., key='input_mode_radio')
InputModeRadio(s) ==
  LET w == widget(s, "input_mode_radio", "Live Recording")
  IN  Put(w, "input_mode", w.input_mode_radio)

\* st.radio("Select Delivery Method:", ..., key='delivery_radio')
DeliveryRadio(s) ==
  LET w == widget(s, "delivery_radio", "Email")
  IN  Put(w, "delivery_target", w.delivery_radio)

ContactKey(s) ==
  IF s.delivery_target = "WhatsApp" THEN "contact_input_wa"
  ELSE "contact_input_email"

\* the contact st.text_input of the selected delivery method; its value=
\* is the contact_input the session holds, whichever method it was typed for
ContactInput(s) ==
  LET w == widget(s, ContactKey(s), s.contact_input)
  IN  Put(w, "contact_input", w[ContactKey(s)])

AudioKey(s) ==
  IF s.input_mode = "Live Recording" THEN "live_audio_recorder"
  ELSE "file_uploader"

\* st.audio_input / st.file_uploader of the selected source
AudioWidget(s) == widget(s, AudioKey(s), None)

\* STEP 1: USER SETUP & INPUT SOURCE, and the audio source widget
Step1Widgets(s0) ==
  AudioWidget(ContactInput(DeliveryRadio(InputModeRadio(NameInput(s0)))))

Step1Keys(s) ==
  {"name_input", "input_mode_radio", "delivery_radio", ContactKey(s), AudioKey(s)}

(***************************************************************************)
(* One run of the script (the __main__ block), top to bottom               *)
(***************************************************************************)
Credentials == {"SARVAM_AI_API_KEY", "OPENAI_API_KEY", "SMTP", "TWILIO"}

\* in the environment: SMTP_PORT is set, to the empty string
BlankPort == "SMTP_PORT="

NoPass ==
  [t_kind |-> "none", synth |-> FALSE, n_kind |-> "none", result |-> "none"]

\* a run that called nothing and showed nothing; from: the stage it found
Quiet(click, from) ==
  [click |-> click, from |-> from, end |-> "done", errors |-> <<>>,
   t_kind |-> "none", t_audio |-> None, t_called |-> FALSE, t_value |-> None,
   synth |-> FALSE, llm |-> FALSE,
   d_kind |-> "none", d_called |-> FALSE, via |-> "", to |-> "", body |-> "",
   status |-> ""]

\* the run is over: by reaching the end of the script ("done"), st.stop()
\* ("stop"), st.rerun() ("rerun") or an exception that escaped ("exception")
End(s, keys, buttons, how, l, p) ==
  [ss |-> Keep(s, keys), rendered |-> buttons, rerun |-> (how = "rerun"),
   last |-> [l EXCEPT !.end = how], pass |-> p]

\* how generate_soap_note_openai ended, for the record of the pass
NoteKind(r, g) ==
  IF r.value = ClientInitError /\ ~r.llm THEN "client_none"
  ELSE IF r.warned THEN "template"
  ELSE g.kind

\* STEP 2, B: st.session_state.soap_note = generate_soap_note_openai(...),
\* the check for "Error" in it, and the move to stage 3
AfterSynthesis(s, keys, buttons, l, tr, r, g) ==
  IF r.value = None
  \* "Error" in None raises TypeError
  THEN End(s, keys, buttons, "exception",
           [l EXCEPT !.synth = TRUE, !.llm = r.llm],
           [t_kind |-> tr.kind, synth |-> TRUE, n_kind |-> NoteKind(r, g),
            result |-> "fault"])
  ELSE IF Contains(r.value, "Error")
  THEN End(Put(s, "current_stage", 0), keys, buttons, "stop",
           [l EXCEPT !.synth = TRUE, !.llm = r.llm, !.errors = <<r.value>>],
           [t_kind |-> tr.kind, synth |-> TRUE, n_kind |-> NoteKind(r, g),
            result |-> "setup"])
  ELSE End(Put(s, "current_stage", 3), keys, buttons, "rerun",
           [l EXCEPT !.synth = TRUE, !.llm = r.llm],
           [t_kind |-> tr.kind, synth |-> TRUE, n_kind |-> NoteKind(r, g),
            result |-> "review"])

\* failure told by how the call ended, not by the text it returned
AfterTranscription_bykind(s, keys, buttons, env, l, tr, g) ==
  IF tr.kind \in Failures
  THEN End(Put(s, "current_stage", 0), keys, buttons, "stop",
           [l EXCEPT !.t_kind = tr.kind, !.t_audio = s.audio_bytes,
                     !.t_called = tr.called, !.t_value = tr.value,
                     !.errors = <<tr.value>>],
           [NoPass EXCEPT !.t_kind = tr.kind, !.result = "setup"])
  ELSE LET r == generate_soap_note_openai(tr.value, "OPENAI_API_KEY" \in env, g)
       IN  AfterSynthesis(
             Put(Put(s, "raw_transcript", tr.value), "soap_note", r.value),
             keys, buttons,
             [l EXCEPT !.t_kind = tr.kind, !.t_audio = s.audio_bytes,
                       !.t_called = tr.called, !.t_value = tr.value],
             tr, r, g)

\* STEP 2, A: the check for "Error" in the transcription's result
AfterTranscription(s, keys, buttons, env, l, tr, g) ==
  IF Contains(tr.value, "Error")
  THEN End(Put(s, "current_stage", 0), keys, buttons, "stop",
           [l EXCEPT !.t_kind = tr.kind, !.t_audio = s.audio_bytes,
                     !.t_called = tr.called, !.t_value = tr.value,
                     !.errors = <<tr.value>>],
           [NoPass EXCEPT !.t_kind = tr.kind, !.result = "setup"])
  ELSE LET r == generate_soap_note_openai(tr.value, "OPENAI_API_KEY" \in env, g)
       IN  AfterSynthesis(
             Put(Put(s, "raw_transcript", tr.value), "soap_note", r.value),
             keys, buttons,
             [l EXCEPT !.t_kind = tr.kind, !.t_audio = s.audio_bytes,
                       !.t_called = tr.called, !.t_value = tr.value],
             tr, r, g)

\* STEP 2: PROCESSING EXECUTION (current_stage == 2)
Processing(s, keys, buttons, env, l, t, g) ==
  IF s.audio_bytes = None
  THEN End(Put(s, "current_stage", 0), keys, buttons, "stop",
           [l EXCEPT !.errors =
              <<"No audio data found. Please record live or upload a file.">>],
           [NoPass EXCEPT !.result = "setup"])
  ELSE AfterTranscription(
         s, keys, buttons, env, l,
         transcribe_audio_sarvam_api(s.audio_bytes, "SARVAM_AI_API_KEY" \in env, t),
         g)

Timestamps == {"2025-10-01 10:15:00"}

full_message_content(doctor_name, now, final_note_content) ==
  "Doctor: " \o doctor_name \o "\n" \o "Date: " \o now \o "\n\n"
  \o "--- FINAL SOAP NOTE ---\n\n" \o final_note_content

\* FOOTER / RESET: st.session_state.clear(), then st.experimental_rerun(),
\* which reruns the script where the installed Streamlit still has it (api)
\* and raises AttributeError where it was removed
Footer(s, keys, buttons, api, l, p) ==
  IF l.click = "reset"
  THEN End(Cleared, {}, buttons \cup {"reset"},
           IF api THEN "rerun" ELSE "exception", l, NoPass)
  ELSE End(s, keys, buttons \cup {"reset"}, "done", l, p)

\* the dispatch on delivery_target
Dispatch(s, body, env, d) ==
  IF s.delivery_target = "WhatsApp"
  THEN send_whatsapp_note(body, s.contact_input, "TWILIO" \in env, d)
  ELSE send_email_note(body, s.contact_input, "SMTP" \in env,
                       BlankPort \notin env, d)

\* the check for "Success!" in send_status
AfterSend(s, keys, buttons, api, l, p, body, sent) ==
  IF sent.value = None
  \* the exception of the delivery function ends the run
  THEN End(s, keys, buttons, "exception",
           [l EXCEPT !.d_kind = sent.kind, !.d_called = sent.called,
                     !.via = sent.via,
                     !.to = s.contact_input, !.body = body],
           p)
  ELSE IF Contains(sent.value, "Success!")
  THEN Footer(Put(Put(s, "current_stage", 0), "audio_bytes", None),
              keys, buttons, api,
              [l EXCEPT !.d_kind = sent.kind, !.d_called = sent.called,
                        !.via = sent.via,
                        !.to = s.contact_input, !.body = body,
                        !.status = sent.value],
              p)
  ELSE Footer(s, keys, buttons, api,
              [l EXCEPT !.d_kind = sent.kind, !.d_called = sent.called,
                        !.via = sent.via,
                        !.to = s.contact_input, !.body = body,
                        !.status = sent.value, !.errors = <<sent.value>>],
              p)

\* the note is sent by every run that shows the review, clicked or not
SendButton_unclicked(s, keys, buttons, env, d, now, api, l, p, body) ==
  AfterSend(s, keys, buttons, api, l, p, body, Dispatch(s, body, env, d))

\* the FINALIZE & SEND button
SendButton(s, keys, buttons, env, d, now, api, l, p, body) ==
  IF l.click = "send"
  THEN AfterSend(s, keys, buttons, api, l, p, body, Dispatch(s, body, env, d))
  ELSE Footer(s, keys, buttons, api, l, p)

\* the message built from the synthesized note, not from the text area
Review_unedited(s, keys, buttons, env, d, now, api, l, p) ==
  LET w == widget(s, "final_note_edit", s.soap_note)
  IN  SendButton(w, keys \cup {"final_note_edit"}, buttons \cup {"send"},
                 env, d, now, api, l, p,
                 full_message_content(s.doctor_name, now, s.soap_note))

\* STEP 3: REVIEW & SEND (current_stage == 3): the note's st.text_area
\* (key 'final_note_edit', value=soap_note), the send button, the footer
Review(s, keys, buttons, env, d, now, api, l, p) ==
  LET w == widget(s, "final_note_edit", s.soap_note)
  IN  SendButton(w, keys \cup {"final_note_edit"}, buttons \cup {"send"},
                 env, d, now, api, l, p,
                 full_message_content(s.doctor_name, now, w.final_note_edit))

\* STEP 2, STEP 3 and the footer, by the stage
Stages(s, keys, buttons, env, t, g, d, now, api, l, p) ==
  IF s.current_stage = 2
  THEN Processing(s, keys, buttons, env, l, t, g)
  ELSE IF s.current_stage = 3
  THEN Review(s, keys, buttons, env, d, now, api, l, p)
  ELSE Footer(s, keys, buttons, api, l, NoPass)

\* the process button takes the session straight to the review
Capture_skips(s, audio_source_data, keys, env, t, g, d, now, api, l, p) ==
  IF audio_source_data # None /\ s.current_stage = 0
  THEN IF l.click = "process"
       THEN End(Put(Put(s, "audio_bytes", audio_source_data), "current_stage", 3),
                keys, {"process"}, "rerun", l, p)
       ELSE Stages(Put(s, "audio_bytes", audio_source_data), keys, {"process"},
                   env, t, g, d, now, api, l, p)
  ELSE Stages(s, keys, {}, env, t, g, d, now, api, l, p)

\* "Process when audio data is available": audio_bytes = getvalue(), the
\* process button, and on its click stage 2 and st.rerun()
Capture(s, audio_source_data, keys, env, t, g, d, now, api, l, p) ==
  IF audio_source_data # None /\ s.current_stage = 0
  THEN IF l.click = "process"
       THEN End(Put(Put(s, "audio_bytes", audio_source_data), "current_stage", 2),
                keys, {"process"}, "rerun", l, p)
       ELSE Stages(Put(s, "audio_bytes", audio_source_data), keys, {"process"},
                   env, t, g, d, now, api, l, p)
  ELSE Stages(s, keys, {}, env, t, g, d, now, api, l, p)

Widgets(s, click, env, t, g, d, now, api, p) ==
  LET w == Step1Widgets(s)
  IN  Capture(w, w[AudioKey(w)], Step1Keys(w), env, t, g, d, now, api,
              Quiet(click, s.current_stage), p)

\* the whole script: initialize_session_state(), STEP 1, the audio capture
\* and process button, STEP 2, STEP 3, the footer.
\* s0: session_state as the run finds it; click: the button whose click
\* started the run ("none": a widget change, a page load or a rerun); env:
\* the credentials; t, g, d, now, api: what the outside world answers;
\* p: the record of the processing pass on display (a run that finds the
\* stage at 0 shows none any more).
Script(s0, click, env, t, g, d, now, api, p) ==
  Widgets(initialize_session_state(s0), click, env, t, g, d, now, api, p)

(***************************************************************************)
(* The session: what the user and the outside world can do                 *)
(***************************************************************************)
\* the configurations: every credential set, or those of one service
\* missing (transcription, synthesis, delivery)
Environs ==
  {Credentials,
   Credentials \ {"SARVAM_AI_API_KEY"},
   Credentials \ {"OPENAI_API_KEY"},
   Credentials \ {"SMTP", "TWILIO"},
   (Credentials \ {"SMTP", "TWILIO"}) \cup {BlankPort}}

DoctorNames == {"Dr. A. Sharma", "Dr. B. Rao"}
DeliveryTargets == {"Email", "WhatsApp"}
InputModes == {"Live Recording", "File Upload"}
Contacts == {"dr.a.sharma@clinic.com", "+919876543210", "Success!@clinic.com"}
AudioBlobs == {"wav_500B", "wav_48kB"}
NoteEdits == {"S: cough, edited by the doctor\nO: chest clear\nA: viral\nP: rest"}

\* len(audio_bytes)
AudioSize(a) == IF a = "wav_500B" THEN 500 ELSE 48000

\* the sessions Streamlit serves from one process, each on its own thread
Sessions == {"s1", "s2"}

\* a call that has not started. pc: the statement it is at; audio_path,
\* output_dir: its locals; status: what became of the provider job; wrote:
\* download_outputs stored its transcript; picked: the file the listing
\* chose; kind, value: how it ended and the string it returns
NoFile == [dir |-> None, name |-> None, owner |-> None, text |-> ""]

IdleCall ==
  [pc |-> "idle", audio_path |-> None, output_dir |-> None, status |-> "none",
   wrote |-> FALSE, picked |-> NoFile, kind |-> "none", value |-> None]

\* clock: int(time.time()); tmp: the temporary audio files that exist;
\* dirs: the output directories that exist; out: the files in them
SttIdle ==
  [clock |-> 0, tmp |-> {}, dirs |-> {}, out |-> {},
   call |-> [s \in Sessions |-> IdleCall]]

(***************************************************************************)
(* Home.py and its pages (pages/History.py, pages/Profile.py): the login    *)
(* screen, the navigation and the session reset, one script run per step.   *)
(* For each session, home holds session_state with the widgets' state (ss), *)
(* what the last run showed (rendered), whether a run is pending (rerun)    *)
(* and the record of the last run (last).                                   *)
(***************************************************************************)
\* the hardcoded clinic password
Secret == "swasthiq2025"

\* what the user types in the password field
Passwords == {"", Secret, "Swasthiq2025", "swasthiq2025 ", "letmein"}

PasswordKey == "Enter Clinic Password"
MenuKey == "option_menu"
SearchKey == "Search by Patient Name:"
HomeWidgetKeys == {PasswordKey, MenuKey, SearchKey}

MenuOptions == <<"Consult", "History", "Profile">>

\* the mock history and the terms searched for
Patients == <<"Ramesh Kumar", "Priya Singh">>
SearchTerms == {"", "ramesh", "PRIYA", "kumar s"}

\* the state of the widgets a run did not render is dropped
HomeKeep(s, keys) ==
  IF DOMAIN s \cap (HomeWidgetKeys \ keys) = {} THEN s
  ELSE [k \in DOMAIN s \ (HomeWidgetKeys \ keys) |-> s[k]]

LoggedIn(s) == Has(s, "logged_in") /\ s.logged_in

\* the end of a page's run. how: "done", "exit" (sys.exit()), "rerun" or
\* "exception"; password: what the password field returned (None when the
\* run did not show it); found: the notes the search found
PageEnd(s, keys, page, click, shown, how, errors, password, found) ==
  [ss |-> HomeKeep(s, keys), rendered |-> shown, rerun |-> (how = "rerun"),
   last |-> [page |-> page, click |-> click, end |-> how, errors |-> errors,
             password |-> password, found |-> found]]

\* any non-empty password opens the session
check_login_any(s, password, api) ==
  IF password # ""
  THEN PageEnd(Put(s, "logged_in", TRUE), {PasswordKey}, "Home", "none",
               {"login"}, IF api THEN "rerun" ELSE "exception", <<>>,
               password, 0)
  ELSE PageEnd(s, {PasswordKey}, "Home", "none", {"login"}, "exit", <<>>,
               password, 0)

\* check_login() and the sys.exit() after it. st.experimental_rerun() reruns
\* the script where the installed Streamlit still has it (api) and raises
\* AttributeError where it was removed.
check_login(s, password, api) ==
  IF password = Secret
  THEN PageEnd(Put(s, "logged_in", TRUE), {PasswordKey}, "Home", "none",
               {"login"}, IF api THEN "rerun" ELSE "exception", <<>>,
               password, 0)
  ELSE IF password # ""
  THEN PageEnd(s, {PasswordKey}, "Home", "none", {"login"}, "exit",
               <<"Invalid password. Please contact support.">>, password, 0)
  ELSE PageEnd(s, {PasswordKey}, "Home", "none", {"login"}, "exit", <<>>,
               password, 0)

\* MAIN APP LAYOUT: the option_menu and the Consult text
MainLayout(s, selected) ==
  PageEnd(s, {MenuKey}, "Home", "none",
          IF selected = "Consult" THEN {"nav", "consult"} ELSE {"nav"},
          "done", <<>>, None, 0)

\* Home.py, one run
HomePage(s0, api) ==
  LET s == IF Has(s0, "logged_in") THEN s0 ELSE Put(s0, "logged_in", FALSE)
  IN  IF ~s.logged_in
      THEN check_login(widget(s, PasswordKey, ""),
                       widget(s, PasswordKey, "")[PasswordKey], api)
      ELSE MainLayout(widget(s, MenuKey, MenuOptions[1]),
                      widget(s, MenuKey, MenuOptions[1])[MenuKey])

\* df_history['Patient Name'].str.lower().str.contains(search_term), counted
Found(history_data, search_term) ==
  IF search_term = "" THEN Len(history_data)
  ELSE Cardinality({i \in 1..Len(history_data) :
                      Contains(Lower(history_data[i]), search_term)})

\* pages/History.py, one run
HistoryPage(s0) ==
  LET s == widget(IF Has(s0, "history_data") THEN s0
                  ELSE Put(s0, "history_data", Patients), SearchKey, "")
  IN  PageEnd(s, {SearchKey}, "History", "none",
              IF Found(s.history_data, Lower(s[SearchKey])) > 0
              THEN {"history", "detail"} ELSE {"history"},
              "done", <<>>, None, Found(s.history_data, Lower(s[SearchKey])))

\* pages/Profile.py, one run
ProfilePage(s0, click) ==
  IF click = "reset"
  THEN PageEnd(Cleared, {}, "Profile", click, {"profile"}, "rerun", <<>>, None, 0)
  ELSE PageEnd(s0, {}, "Profile", click, {"profile"}, "done", <<>>, None, 0)

NoPage ==
  [page |-> "none", click |-> "none", end |-> "done", errors |-> <<>>,
   password |-> None, found |-> 0]

\* no session has loaded a page yet
HomeIdle ==
  [c \in Sessions |->
     [ss |-> Cleared, rendered |-> {}, rerun |-> FALSE, last |-> NoPage]]

GateIdle ==
  [fill |-> 0, tok |-> [text |-> "", words |-> 0, kw |-> FALSE], front |-> FALSE,
   sep |-> " ", lead |-> "", trail |-> "", client_ok |-> TRUE,
   g |-> [kind |-> "null", text |-> None],
   done |-> FALSE, result |-> [value |-> "", llm |-> FALSE, warned |-> FALSE]]

Init ==
  /\ ss = Cleared
  /\ environ \in Environs
  /\ rendered = {}
  /\ rerun = TRUE
  /\ last = Quiet("none", 0)
  /\ pass = NoPass
  /\ gate = GateIdle
  /\ stt = SttIdle
  /\ home = HomeIdle

InProcessing(s) == Has(s, "current_stage") /\ s.current_stage = 2
InReview(s) == Has(s, "current_stage") /\ s.current_stage = 3

AnyT == CHOOSE t \in TranscribeOutcomes : TRUE
AnyG == CHOOSE g \in LlmOutcomes : TRUE
AnyD == CHOOSE d \in DeliveryOutcomes : TRUE
AnyNow == CHOOSE n \in Timestamps : TRUE

\* a script run from session state s0, started by `click`; the outside world
\* answers only the calls the run makes
Run(s0, click) ==
  \E t \in IF InProcessing(s0) THEN TranscribeOutcomes ELSE {AnyT} :
  \E g \in IF InProcessing(s0) /\ t.kind \in {"ok", "job_failed"}
           THEN LlmOutcomes ELSE {AnyG},
     d \in IF click = "send" THEN DeliveryOutcomes ELSE {AnyD},
     now \in IF click = "send" THEN Timestamps ELSE {AnyNow},
     api \in IF click = "reset" THEN BOOLEAN ELSE {FALSE} :
    \E r \in {Script(s0, click, environ, t, g, d, now, api, pass)} :
       /\ ss' = r.ss
       /\ rendered' = r.rendered
       /\ rerun' = r.rerun
       /\ last' = r.last
       /\ pass' = r.pass
       /\ UNCHANGED <<environ, gate, stt, home>>

\* the first page load, and the run st.rerun() asks for
Rerun ==
  /\ rerun
  /\ Run(ss, "none")

\* the user loads or comes back to the page, or clicks a button that does
\* not belong to the page's current run ("Start New Scribe Session")
OpenConsult ==
  /\ ~rerun
  /\ Run(ss, "none")

OnPage == ~rerun /\ Has(ss, "current_stage")

EditDoctorName ==
  /\ OnPage
  /\ \E n \in DoctorNames : Run(Put(ss, "name_input", n), "none")

SelectInputMode ==
  /\ OnPage
  /\ \E m \in InputModes : Run(Put(ss, "input_mode_radio", m), "none")

SelectDelivery ==
  /\ OnPage
  /\ \E target \in DeliveryTargets : Run(Put(ss, "delivery_radio", target), "none")

EditContact ==
  /\ OnPage
  /\ \E c \in Contacts :
       Run(Put(ss, IF ss.delivery_target = "WhatsApp"
                   THEN "contact_input_wa" ELSE "contact_input_email", c), "none")

\* record, upload or remove audio in the audio widget on the page
ProvideAudio ==
  /\ OnPage
  /\ \E a \in AudioBlobs \cup {None} :
       Run(Put(ss, IF ss.input_mode = "Live Recording"
                   THEN "live_audio_recorder" ELSE "file_uploader", a), "none")

EditNote ==
  /\ OnPage
  /\ "send" \in rendered
  /\ \E text \in NoteEdits : Run(Put(ss, "final_note_edit", text), "none")

ClickProcess ==
  /\ OnPage
  /\ "process" \in rendered
  /\ Run(ss, "process")

ClickSend ==
  /\ OnPage
  /\ "send" \in rendered
  /\ Run(ss, "send")

ClickReset ==
  /\ OnPage
  /\ "reset" \in rendered
  /\ Run(ss, "reset")

\* pages/Profile.py, "Reset All Session Data": st.session_state.clear() and
\* st.rerun() of the Profile page; the user can go there at any time, which
\* abandons a consult run in flight
ProfileReset ==
  /\ ss' = Cleared
  /\ rendered' = {}
  /\ rerun' = FALSE
  /\ last' = Quiet("profile_reset", IF Has(ss, "current_stage") THEN ss.current_stage ELSE 0)
  /\ pass' = NoPass
  /\ UNCHANGED <<environ, gate, stt, home>>

Next ==
  \/ Rerun
  \/ OpenConsult
  \/ EditDoctorName
  \/ SelectInputMode
  \/ SelectDelivery
  \/ EditContact
  \/ ProvideAudio
  \/ EditNote
  \/ ClickProcess
  \/ ClickSend
  \/ ClickReset
  \/ ProfileReset

Spec == Init /\ [][Next]_vars

(***************************************************************************)
(* generate_soap_note_openai on its own: one call on a bounded transcript  *)
(***************************************************************************)
MaxFill == 11

\* a word (or two) put into the transcript: its text, the number of
\* whitespace-separated words it makes, and whether some clinical keyword
\* occurs in it when case is ignored
Tokens ==
  {[text |-> "", words |-> 0, kw |-> FALSE],
   [text |-> "thanks", words |-> 1, kw |-> FALSE],
   [text |-> "docto", words |-> 1, kw |-> FALSE],
   [text |-> "pai n", words |-> 2, kw |-> FALSE],
   [text |-> "m\tg", words |-> 2, kw |-> FALSE],
   [text |-> "PAIN", words |-> 1, kw |-> TRUE],
   [text |-> "Fever,", words |-> 1, kw |-> TRUE],
   [text |-> "650mg", words |-> 1, kw |-> TRUE],
   [text |-> "undiagnosed", words |-> 1, kw |-> TRUE],
   [text |-> "Prescribed", words |-> 1, kw |-> TRUE],
   [text |-> "teleconsultation", words |-> 1, kw |-> TRUE],
   [text |-> "outpatients", words |-> 1, kw |-> TRUE],
   [text |-> "DOCTOR.", words |-> 1, kw |-> TRUE],
   [text |-> "pre-treatment", words |-> 1, kw |-> TRUE]}

RECURSIVE Fill(_, _)
Fill(n, sep) ==
  IF n = 0 THEN ""
  ELSE IF n = 1 THEN "hello"
  ELSE "hello" \o sep \o Fill(n - 1, sep)

\* the transcript a gate input describes
GateTranscript(gt) ==
  LET body == IF gt.tok.text = "" THEN Fill(gt.fill, gt.sep)
              ELSE IF gt.fill = 0 THEN gt.tok.text
              ELSE IF gt.front THEN gt.tok.text \o gt.sep \o Fill(gt.fill, gt.sep)
              ELSE Fill(gt.fill, gt.sep) \o gt.sep \o gt.tok.text
  IN gt.lead \o body \o gt.trail

GateWords(gt) == gt.fill + gt.tok.words

InitGate ==
  /\ \E fill \in 0..MaxFill, tok \in Tokens, front \in BOOLEAN,
        sep \in {" ", "\n"}, lead \in {"", " \n"}, trail \in {"", "\t "},
        client_ok \in BOOLEAN, g \in LlmOutcomes :
       gate = [fill |-> fill, tok |-> tok, front |-> front, sep |-> sep,
               lead |-> lead, trail |-> trail, client_ok |-> client_ok,
               g |-> g, done |-> FALSE,
               result |-> [value |-> "", llm |-> FALSE, warned |-> FALSE]]
  /\ environ = IF gate.client_ok THEN Credentials
               ELSE Credentials \ {"OPENAI_API_KEY"}
  /\ ss = Cleared
  /\ rendered = {}
  /\ rerun = FALSE
  /\ last = Quiet("none", 0)
  /\ pass = NoPass
  /\ stt = SttIdle
  /\ home = HomeIdle

\* generate_soap_note_openai(transcript) is called
GateCall ==
  /\ ~gate.done
  /\ gate' = [gate EXCEPT
                !.done = TRUE,
                !.result = generate_soap_note_openai(GateTranscript(gate),
                                                     gate.client_ok, gate.g)]
  /\ UNCHANGED <<ss, environ, rendered, rerun, last, pass, stt, home>>

NextGate == GateCall

SpecGate == InitGate /\ [][NextGate]_vars

(***************************************************************************)
(* transcribe_audio_sarvam_api statement by statement, for the sessions    *)
(* of one process: each call is a thread of the Streamlit server, and the  *)
(* temporary directory is the process's                                    *)
(***************************************************************************)
MaxClock == 1

\* the audio each session recorded, and what the provider hears in it
SttAudio(s) == IF s = "s1" THEN "wav_48kB" ELSE "wav_500B"
TranscriptOf(audio) == "transcript of " \o audio

\* tempfile.NamedTemporaryFile(delete=False, suffix=".wav"): a fresh name
TempPath(s) == "/tmp/tmp_" \o s \o ".wav"

\* os.path.join(tempfile.gettempdir(), f"sarvam_output_{int(time.time())}")
OutputDir(now) == "/tmp/sarvam_output_" \o ToString(now)

\* the transcript file download_outputs stores for the job of session s
OutputFile(s, dir) ==
  [dir |-> dir, name |-> "tmp_" \o s \o ".wav.json", owner |-> s,
   text |-> TranscriptOf(SttAudio(s))]

SttSet(s, c) == [stt EXCEPT !.call[s] = c]

\* a return: the string is the one transcribe_audio_sarvam_api builds
SttResult(s, kind, text) ==
  transcribe_audio_sarvam_api(SttAudio(s), kind # "no_key",
                              [kind |-> kind, text |-> text])

SttReturn(c, s, kind, text, pc) ==
  [c EXCEPT !.pc = pc, !.kind = SttResult(s, kind, text).kind,
            !.value = SttResult(s, kind, text).value]

\* the key check (lines 50-52)
SttEnter(s) ==
  /\ stt.call[s].pc = "idle"
  /\ stt' = SttSet(s, IF "SARVAM_AI_API_KEY" \in environ
                      THEN [stt.call[s] EXCEPT !.pc = "tempfile"]
                      ELSE SttReturn(stt.call[s], s, "no_key", "", "done"))
  /\ UNCHANGED <<ss, environ, rendered, rerun, last, pass, gate, home>>

\* the temporary audio file (lines 55-60) and output_dir (line 63). The file
\* is created and written; or it cannot be created; or it is created and
\* the write fails, and the function returns from the except with the file,
\* opened with delete=False, still there.
SttTempFile(s) ==
  /\ stt.call[s].pc = "tempfile"
  /\ \E o \in {"written", "create_fail", "write_fail"} :
       stt' = IF o = "written"
              THEN [SttSet(s, [stt.call[s] EXCEPT
                                 !.pc = "job", !.audio_path = TempPath(s),
                                 !.output_dir = OutputDir(stt.clock)])
                      EXCEPT !.tmp = @ \cup {TempPath(s)}]
              ELSE [SttSet(s, SttReturn(stt.call[s], s, "write_fail",
                                        "No space left on device", "done"))
                      EXCEPT !.tmp = IF o = "write_fail"
                                     THEN @ \cup {TempPath(s)} ELSE @]
  /\ UNCHANGED <<ss, environ, rendered, rerun, last, pass, gate, home>>

\* create_job, upload_files, start, wait_until_complete, is_failed (lines
\* 67-85). The job completes, fails, or a call raises; or the job never
\* reaches a final status ("stuck") and wait_until_complete, the SDK's own
\* wait, either raises its timeout or does not come back ("hung").
SttJob(s) ==
  /\ stt.call[s].pc = "job"
  /\ \E o \in {"completed", "failed", "raise", "stuck_raise", "stuck_hang"} :
       stt' = SttSet(s,
                IF o = "completed"
                THEN [stt.call[s] EXCEPT !.pc = "download", !.status = "COMPLETED"]
                ELSE IF o = "failed"
                THEN [SttReturn(stt.call[s], s, "job_failed", "job_" \o s, "finally")
                        EXCEPT !.status = "FAILED"]
                ELSE IF o = "raise"
                THEN SttReturn(stt.call[s], s, "sdk_raise", "Read timed out.", "finally")
                ELSE IF o = "stuck_raise"
                THEN [SttReturn(stt.call[s], s, "sdk_raise",
                                "Job did not complete within 600 seconds", "finally")
                        EXCEPT !.status = "stuck"]
                ELSE [stt.call[s] EXCEPT !.pc = "hung", !.status = "stuck"])
  /\ UNCHANGED <<ss, environ, rendered, rerun, last, pass, gate, home>>

\* job.download_outputs(output_dir=output_dir) (line 89): the directory is
\* made if it is not there and the job's transcript file stored in it; or
\* the job has no output file; or the download raises
SttDownload(s) ==
  /\ stt.call[s].pc = "download"
  /\ \E o \in {"file", "nofile", "raise"} :
       stt' = IF o = "raise"
              THEN SttSet(s, SttReturn(stt.call[s], s, "sdk_raise",
                                       "Read timed out.", "finally"))
              ELSE [SttSet(s, [stt.call[s] EXCEPT !.pc = "list",
                                                  !.wrote = (o = "file")])
                      EXCEPT !.dirs = @ \cup {stt.call[s].output_dir},
                             !.out = IF o = "file"
                                     THEN @ \cup {OutputFile(s, stt.call[s].output_dir)}
                                     ELSE @]
  /\ UNCHANGED <<ss, environ, rendered, rerun, last, pass, gate, home>>

\* for filename in os.listdir(output_dir): the first .txt or .json, in the
\* order the directory lists (lines 92-104); the listing raises if the
\* directory is gone
SttList(s) ==
  /\ stt.call[s].pc = "list"
  /\ IF stt.call[s].output_dir \notin stt.dirs
     THEN stt' = SttSet(s, SttReturn(stt.call[s], s, "sdk_raise",
                                      "[Errno 2] No such file or directory", "finally"))
     ELSE IF {f \in stt.out : f.dir = stt.call[s].output_dir} = {}
     THEN stt' = SttSet(s, SttReturn(stt.call[s], s, "no_output", "", "finally"))
     ELSE \E f \in {f \in stt.out : f.dir = stt.call[s].output_dir} :
            stt' = SttSet(s, [stt.call[s] EXCEPT !.pc = "read", !.picked = f])
  /\ UNCHANGED <<ss, environ, rendered, rerun, last, pass, gate, home>>

\* open(transcript_file_path), f.read(), return transcript (lines 99-102)
SttRead(s) ==
  /\ stt.call[s].pc = "read"
  /\ stt' = SttSet(s, IF stt.call[s].picked \in stt.out
                      THEN SttReturn(stt.call[s], s, "ok",
                                     stt.call[s].picked.text, "finally")
                      ELSE SttReturn(stt.call[s], s, "sdk_raise",
                                     "[Errno 2] No such file or directory", "finally"))
  /\ UNCHANGED <<ss, environ, rendered, rerun, last, pass, gate, home>>

\* finally (lines 109-115): os.unlink(audio_path), shutil.rmtree(output_dir)
SttFinally(s) ==
  /\ stt.call[s].pc = "finally"
  /\ stt' = [SttSet(s, [stt.call[s] EXCEPT !.pc = "done"])
               EXCEPT !.tmp = @ \ {stt.call[s].audio_path},
                      !.dirs = @ \ {stt.call[s].output_dir},
                      !.out = {f \in @ : f.dir # stt.call[s].output_dir}]
  /\ UNCHANGED <<ss, environ, rendered, rerun, last, pass, gate, home>>

\* a second passes
SttTick ==
  /\ stt.clock < MaxClock
  /\ stt' = [stt EXCEPT !.clock = @ + 1]
  /\ UNCHANGED <<ss, environ, rendered, rerun, last, pass, gate, home>>

InitStt ==
  /\ environ \in {Credentials, Credentials \ {"SARVAM_AI_API_KEY"}}
  /\ stt = SttIdle
  /\ home = HomeIdle
  /\ ss = Cleared
  /\ rendered = {}
  /\ rerun = FALSE
  /\ last = Quiet("none", 0)
  /\ pass = NoPass
  /\ gate = GateIdle

NextStt ==
  \/ \E s \in Sessions : SttEnter(s)
  \/ \E s \in Sessions : SttTempFile(s)
  \/ \E s \in Sessions : SttJob(s)
  \/ \E s \in Sessions : SttDownload(s)
  \/ \E s \in Sessions : SttList(s)
  \/ \E s \in Sessions : SttRead(s)
  \/ \E s \in Sessions : SttFinally(s)
  \/ SttTick

SpecStt == InitStt /\ [][NextStt]_vars

(***************************************************************************)
(* The sessions of the Home application, one script run per step            *)
(***************************************************************************)
InitHome ==
  /\ ss = Cleared
  /\ environ = Credentials
  /\ rendered = {}
  /\ rerun = FALSE
  /\ last = Quiet("none", 0)
  /\ pass = NoPass
  /\ gate = GateIdle
  /\ stt = SttIdle
  /\ home = HomeIdle

\* the run's result becomes the session's state; the sessions share nothing
Shown(c, r) ==
  /\ home' = [home EXCEPT ![c] = r]
  /\ UNCHANGED <<ss, environ, rendered, rerun, last, pass, gate, stt>>

\* the user opens Home or comes back to it from a page
OpenHome(c) ==
  /\ ~home[c].rerun
  /\ \E api \in BOOLEAN : Shown(c, HomePage(home[c].ss, api))

EnterPassword(c) ==
  /\ ~home[c].rerun /\ home[c].last.page = "Home"
  /\ "login" \in home[c].rendered
  /\ \E password \in Passwords, api \in BOOLEAN :
       Shown(c, HomePage(Put(home[c].ss, PasswordKey, password), api))

SelectMenu(c) ==
  /\ ~home[c].rerun /\ home[c].last.page = "Home"
  /\ "nav" \in home[c].rendered
  /\ \E i \in 1..Len(MenuOptions) :
       Shown(c, HomePage(Put(home[c].ss, MenuKey, MenuOptions[i]), FALSE))

OpenHistory(c) ==
  /\ ~home[c].rerun
  /\ Shown(c, HistoryPage(home[c].ss))

SearchHistory(c) ==
  /\ ~home[c].rerun /\ home[c].last.page = "History"
  /\ \E term \in SearchTerms :
       Shown(c, HistoryPage(Put(home[c].ss, SearchKey, term)))

OpenProfile(c) ==
  /\ ~home[c].rerun
  /\ Shown(c, ProfilePage(home[c].ss, "none"))

ClickProfileReset(c) ==
  /\ ~home[c].rerun /\ home[c].last.page = "Profile"
  /\ Shown(c, ProfilePage(home[c].ss, "reset"))

\* st.experimental_rerun() / st.rerun(): the page's script runs again
PageRerun(c) ==
  /\ home[c].rerun
  /\ IF home[c].last.page = "Home"
     THEN Shown(c, HomePage(home[c].ss, FALSE))
     ELSE Shown(c, ProfilePage(home[c].ss, "none"))

NextHome ==
  \E c \in Sessions :
    \/ OpenHome(c)
    \/ EnterPassword(c)
    \/ SelectMenu(c)
    \/ OpenHistory(c)
    \/ SearchHistory(c)
    \/ OpenProfile(c)
    \/ ClickProfileReset(c)
    \/ PageRerun(c)

SpecHome == InitHome /\ [][NextHome]_vars

(***************************************************************************)
(* Properties                                                              *)
(***************************************************************************)

\* C4: the gate takes the trivial path (warning shown, model call skipped)
\* exactly when the transcript has no word, or has fewer than 10 words and
\* no keyword in it; so a transcript with a keyword, or with 10 or more
\* words, is never judged trivial.
C4_GateRule ==
  (gate.done /\ gate.client_ok) =>
    /\ gate.result.warned <=>
         (GateWords(gate) = 0 \/ (GateWords(gate) < 10 /\ ~gate.tok.kw))
    /\ gate.tok.kw => ~gate.result.warned
    /\ GateWords(gate) >= 10 => ~gate.result.warned

\* nine words without a keyword are judged trivial, at the threshold's edge
C4_Witness ==
  /\ gate.done /\ gate.client_ok
  /\ GateWords(gate) = 9 /\ ~gate.tok.kw /\ gate.tok.words = 2
  /\ gate.result.warned

\* C3: whenever the transcript is trivial the synthesizer returns the fixed
\* four-section template, calls no model, and does not return a failure,
\* whatever the state of the model client.
C3_TrivialPathNeverFails ==
  (gate.done /\ (GateWords(gate) = 0 \/ (GateWords(gate) < 10 /\ ~gate.tok.kw))) =>
    /\ gate.result.value = SafeNote
    /\ ~gate.result.llm
    /\ ~Contains(gate.result.value, "Error")

\* C1: the stage is REVIEW only after a pass whose transcription returned a
\* real transcript (none of its failure outcomes) and whose synthesis
\* returned a note.
C1_ReviewNeedsTranscriptAndNote ==
  InReview(ss) =>
    /\ pass.t_kind = "ok"
    /\ pass.n_kind \in {"ok", "template"}

\* C2: a run whose transcription call ended in a failure outcome leaves the
\* stage at SETUP, shows the failure, and has not invoked the synthesizer.
C2_TranscriptionFailureStops ==
  last.t_kind \in Failures =>
    /\ ss.current_stage = 0
    /\ last.errors # <<>>
    /\ ~last.synth

\* C5: right after a successful delivery the stage is SETUP and the audio,
\* the transcript and the note are back at their initial empty values.
C5_SendClearsArtifacts ==
  last.d_kind = "ok" =>
    /\ ss.current_stage = 0
    /\ ss.audio_bytes = None
    /\ ss.raw_transcript = ""
    /\ ss.soap_note = ""

\* C6: a finalize-and-send whose delivery failed leaves the stage at REVIEW,
\* leaves note, transcript and audio as they were, shows the error, and
\* leaves the send button and the contact field on the page.
C6_DeliveryFailureStaysInReview ==
  [][(last'.click = "send" /\ last'.d_kind \notin {"ok", "none"}) =>
       /\ ss'.current_stage = 3
       /\ ss'.soap_note = ss.soap_note
       /\ ss'.final_note_edit = ss.final_note_edit
       /\ ss'.raw_transcript = ss.raw_transcript
       /\ ss'.audio_bytes = ss.audio_bytes
       /\ last'.errors # <<>>
       /\ "send" \in rendered'
       /\ ~rerun']_vars

\* C7: no transcription call is made on audio of fewer than 1000 bytes.
C7_SmallAudioRejected ==
  last.t_kind # "none" => AudioSize(last.t_audio) >= 1000

\* C8: after a processing pass that failed, the audio, the transcript and
\* the note are reset: the note holds no error string and the transcript is
\* not the failed pass's.
C8_FailedPassLeavesNothing ==
  (/\ last.end = "stop"
   /\ last.t_kind \in Failures \/ pass.n_kind \in {"client_none", "raise"}) =>
    /\ ss.audio_bytes = None
    /\ ss.raw_transcript = ""
    /\ ss.soap_note = ""

\* C9: a processing pass that fails (no audio, transcription failure,
\* synthesis failure) sets the stage to SETUP and leaves the doctor's name,
\* the delivery target and the contact address as they were.
C9_FailedPassFrame ==
  [][(/\ rerun /\ InProcessing(ss) /\ last'.click = "none"
      /\ \/ last'.t_kind \in Failures
         \/ pass'.n_kind \in {"client_none", "raise"}
         \/ pass'.t_kind = "none")
     => /\ ss'.current_stage = 0
        /\ ss'.doctor_name = ss.doctor_name
        /\ ss'.delivery_target = ss.delivery_target
        /\ ss'.contact_input = ss.contact_input]_vars

\* C10: the reset is on offer at every stage (every page the consult
\* script leaves on display has the Reset Application button, and the
\* Profile page's Reset All Session Data is always there), and whenever
\* either of them fires every session field is discarded and comes back at
\* its default, with the stage at SETUP.
C10_ResetAvailableAndComplete ==
  [][/\ (Has(ss', "current_stage") /\ ~rerun') => "reset" \in rendered'
     /\ last'.click \in {"reset", "profile_reset"} => ss' = Cleared
     /\ (ss = Cleared /\ ss' # Cleared) =>
          \A k \in DOMAIN Defaults : ss'[k] = Defaults[k]]_vars

\* C11: when a transcription call has returned, on whatever path, the
\* temporary audio file it created and the output directory it named are
\* gone, and so is every output file stored for it.
C11_TempStorageGone ==
  \A s \in Sessions :
    stt.call[s].pc = "done" =>
      /\ TempPath(s) \notin stt.tmp
      /\ stt.call[s].output_dir \notin stt.dirs
      /\ ~\E f \in stt.out : f.owner = s

\* C12: sessions transcribing at once do not share storage: a call reads
\* only the transcript stored for its own audio, and a call whose transcript
\* was stored returns that transcript, whatever the other call cleans up.
C12_SessionsIsolated ==
  \A s \in Sessions :
    /\ stt.call[s].picked.owner \in {None, s}
    /\ (stt.call[s].pc = "done" /\ stt.call[s].wrote) =>
         /\ stt.call[s].kind = "ok"
         /\ stt.call[s].value = TranscriptOf(SttAudio(s))

\* C20: a call whose job never reaches a final status has returned the
\* timeout failure once it is past the wait; the call is never left waiting.
C20_PollingBounded ==
  \A s \in Sessions :
    stt.call[s].status = "stuck" =>
      /\ stt.call[s].pc \in {"finally", "done"}
      /\ Contains(stt.call[s].value, "Sarvam Transcription Timeout")

\* C13: a finalize-and-send whose contact is malformed for the delivery
\* target of the moment ends in a validation failure: the error is shown,
\* the stage stays at REVIEW, and no transport reaches its provider with it.
C13_MalformedContactRejected ==
  (last.click = "send" /\ last.from = 3
   /\ ~WellFormed(ss.delivery_target, ss.contact_input)) =>
    /\ last.d_kind \notin {"ok", "raise", "refused"}
    /\ last.errors # <<>>
    /\ ss.current_stage = 3

\* C14: a finalize-and-send in REVIEW invokes one transport, the one of
\* the delivery target of the moment, for the contact of the moment, with
\* one body that holds the doctor's name, the timestamp and the note as
\* the text area holds it (the edited text, not the synthesized one, when
\* they differ).
C14_OneTransportOneBody ==
  [][(last'.click = "send" /\ InReview(ss) /\ ~rerun) =>
       /\ last'.d_kind # "none"
       /\ last'.via = ss.delivery_target
       /\ last'.to = ss.contact_input
       /\ Contains(last'.body, "Doctor: " \o ss.doctor_name \o "\n")
       /\ \E now \in Timestamps : Contains(last'.body, "Date: " \o now)
       /\ Contains(last'.body, "\n\n" \o ss.final_note_edit)
       /\ Len(last'.body) - Len(ss.final_note_edit) < 80
       /\ ss.final_note_edit # ss.soap_note =>
            ~Contains(last'.body, ss.soap_note)]_vars

\* a note edited in the text area went out by WhatsApp
C14_Witness ==
  /\ last.click = "send" /\ last.from = 3 /\ last.via = "WhatsApp"
  /\ last.d_kind = "ok"
  /\ ss.final_note_edit # ss.soap_note
  /\ Contains(last.body, ss.final_note_edit)

\* C15: a step calls the Delivery Dispatcher exactly when it is a click on
\* finalize-and-send taken while the stage is REVIEW; so the delivery calls
\* are as many as those clicks, and no processing pass, first or repeated,
\* delivers anything.
C15_DeliveryOnlyOnSend ==
  [][(last'.d_kind # "none") <=>
       (last'.click = "send" /\ InReview(ss) /\ ~rerun)]_vars

\* a processing pass entered again after an earlier one (whose transcript
\* the session still holds) has ended, and it delivered nothing
C15_Witness ==
  /\ last.from = 2 /\ last.t_kind \in Failures \ {"job_failed"}
  /\ ss.raw_transcript # ""
  /\ last.d_kind = "none"

\* C16: the stage changes only forward, SETUP to PROCESSING to REVIEW to
\* SETUP, or back to SETUP on a failure or a reset: REVIEW is entered only
\* from PROCESSING, PROCESSING only from SETUP by the process button with
\* audio captured, and never from REVIEW.
C16_StageOrder ==
  [][/\ (InReview(ss') /\ ~InReview(ss)) => InProcessing(ss)
     /\ (InProcessing(ss') /\ ~InProcessing(ss)) =>
          /\ Has(ss, "current_stage") /\ ss.current_stage = 0
          /\ last'.click = "process"
          /\ ss'.audio_bytes # None
     /\ ~(InReview(ss) /\ InProcessing(ss'))
     /\ (Has(ss, "current_stage") /\ Has(ss', "current_stage")) =>
          <<ss.current_stage, ss'.current_stage>> \in
            {<<0, 0>>, <<0, 2>>, <<2, 2>>, <<2, 3>>, <<2, 0>>, <<3, 3>>, <<3, 0>>}
     /\ (~Has(ss, "current_stage") /\ Has(ss', "current_stage")) =>
          ss'.current_stage = 0]_vars

\* the stage has just gone from PROCESSING to REVIEW
C16_Witness ==
  InReview(ss) /\ last.from = 2 /\ last.end = "rerun" /\ rerun

\* C17: with the credential of a boundary absent, the operation returns a
\* failure that names what is missing, the provider is not called, and the
\* script treats the result as a failure: a processing pass goes back to
\* SETUP, a send stays in REVIEW with the error shown.
C17_MissingCredentialFails ==
  /\ (last.t_kind # "none" /\ "SARVAM_AI_API_KEY" \notin environ) =>
       /\ last.t_kind = "no_key" /\ ~last.t_called
       /\ Contains(last.t_value, "SARVAM_AI_API_KEY not found")
       /\ last.errors = <<last.t_value>> /\ last.end = "stop"
       /\ ss.current_stage = 0
  /\ (last.synth /\ "OPENAI_API_KEY" \notin environ) =>
       /\ ~last.llm
       /\ Contains(ss.soap_note, "OpenAI client failed to initialize. Check API key.")
       /\ last.errors = <<ss.soap_note>> /\ last.end = "stop"
       /\ ss.current_stage = 0
  /\ (last.d_kind # "none" /\ last.via = "Email" /\ "SMTP" \notin environ) =>
       /\ ~last.d_called
       /\ Contains(last.status, "SMTP credentials not set up")
       /\ last.errors = <<last.status>>
       /\ ss.current_stage = 3
  /\ (last.d_kind # "none" /\ last.via = "WhatsApp" /\ "TWILIO" \notin environ) =>
       /\ ~last.d_called
       /\ Contains(last.status, "Twilio credentials not set up")
       /\ last.errors = <<last.status>>
       /\ ss.current_stage = 3

\* C18: whatever the configuration and the provider's outcome, a run that
\* transcribes, synthesizes or delivers ends without an exception: each
\* operation returns a value and the script inspects it without a fault.
C18_NoFaultEscapes ==
  (last.t_kind # "none" \/ last.d_kind # "none") => last.end # "exception"

\* C19: in a processing pass, failure is told by the substring "Error",
\* case-sensitively: the transcription's result stops the pass exactly when
\* it contains "Error", and so does the note; a transcript or note that holds
\* "Error" as text sends the stage back to SETUP, one that holds only
\* "error" goes through.
C19_FailureBySubstring ==
  (last.from = 2 /\ last.t_kind # "none" /\ last.end # "exception") =>
    /\ Contains(last.t_value, "Error") <=> ~last.synth
    /\ ~last.synth =>
         /\ ss.current_stage = 0 /\ last.end = "stop"
         /\ last.errors = <<last.t_value>>
    /\ last.synth =>
         /\ ss.raw_transcript = last.t_value
         /\ Contains(ss.soap_note, "Error") <=>
              (ss.current_stage = 0 /\ last.end = "stop")
         /\ ~Contains(ss.soap_note, "Error") <=>
              (ss.current_stage = 3 /\ last.end = "rerun")

\* a transcript the provider did produce, with "Error" in its text, has
\* sent the pass back to SETUP
C19_Witness ==
  /\ last.from = 2 /\ last.t_kind = "ok" /\ last.t_called
  /\ Contains(last.t_value, "Error")
  /\ ss.current_stage = 0 /\ last.end = "stop" /\ ~last.synth

\* C21: whenever the stage is PROCESSING audio_bytes is set, so no run takes
\* the "No audio data found" branch; and audio_bytes changes only in a step
\* that finds the stage at SETUP, or is cleared by a successful send (a reset
\* clears the whole session).
C21_AudioSetInProcessing ==
  [][/\ InProcessing(ss') => ss'.audio_bytes # None
     /\ last'.errors #
          <<"No audio data found. Please record live or upload a file.">>
     /\ (/\ Has(ss, "audio_bytes") /\ Has(ss', "audio_bytes")
         /\ ss'.audio_bytes # ss.audio_bytes) =>
          \/ ss.current_stage = 0
          \/ /\ ss'.audio_bytes = None /\ InReview(ss)
             /\ last'.click = "send" /\ last'.d_kind = "ok"]_vars

\* C22: in Home.py, for every session, the navigation and the Consult text
\* are shown only by a run that finds logged_in true; logged_in goes from
\* false to true only in a run of that session where the password entered
\* equals the secret; a wrong non-empty password leaves it false and shows
\* the error; a session reset leaves the session logged out.
C22_LoginGate ==
  [][\A c \in Sessions :
       home'[c] # home[c] =>
         /\ (/\ home'[c].last.page = "Home"
             /\ home'[c].rendered \cap {"nav", "consult"} # {}) =>
              LoggedIn(home[c].ss) /\ LoggedIn(home'[c].ss)
         /\ (~LoggedIn(home[c].ss) /\ LoggedIn(home'[c].ss)) =>
              /\ home'[c].last.page = "Home"
              /\ home'[c].last.password = Secret
         /\ (/\ home'[c].last.page = "Home"
             /\ home'[c].last.password \notin {None, "", Secret}) =>
              /\ ~LoggedIn(home'[c].ss)
              /\ home'[c].last.errors =
                   <<"Invalid password. Please contact support.">>
              /\ home'[c].rendered = {"login"}
         /\ home'[c].last.click = "reset" => ~LoggedIn(home'[c].ss)
         /\ (~LoggedIn(home[c].ss) /\ home'[c].last.page = "Home") =>
              home'[c].rendered = {"login"}]_vars

\* one session has been given the secret and is logged in while the other,
\* given a wrong password, is not
C22_Witness ==
  /\ LoggedIn(home["s1"].ss) /\ home["s1"].last.password = Secret
  /\ ~LoggedIn(home["s2"].ss) /\ home["s2"].last.password = "Swasthiq2025"
  /\ home["s2"].last.errors # <<>>

====
